---- MODULE Spec2Model ----
(***************************************************************************)
(* Homelink backend: the LM Studio client (health cache, bounded-retry     *)
(* completion calls) and the vision capture pipeline, as run by the        *)
(* request threads of the server.  Every thread executes the Python code   *)
(* statement by statement; a step of the model is one read or write of    *)
(* shared state, or one network / camera call.                             *)
(***************************************************************************)
EXTENDS Integers, Sequences, FiniteSets, TLC

VARIABLES
    clock,              \* time.time(), in seconds
    max_retries,        \* LMStudioClient.max_retries (config retry.max_attempts)
    is_healthy,         \* LMStudioClient._is_healthy
    last_health_check,  \* LMStudioClient._last_health_check: <<>> is None, <<t>> a time
    pc,                 \* per thread: the statement it is at
    stack,              \* per thread: return labels of the calls in progress
    hc,                 \* per thread: locals of health_check
    cc,                 \* per thread: locals of chat_completion / vision_completion
    vis,                \* per thread: locals of handle_vision_intent / _capture_frame
    vision_state,       \* the record published by update_vision_state
    cache_writer,       \* history: the thread whose probe wrote each HealthState field
    rt,                 \* per thread: locals of chat_completions and save_context
    memory_file,        \* learned_triggers.json: its recent_memory list
    client,             \* the module singleton _client: None until constructed
    appends,            \* history: the number of save_context calls completed
    vision_writer,      \* history: the thread whose call published each field
    px                  \* per task of the proxy (main.py): the request it serves

vars == <<clock, max_retries, is_healthy, last_health_check, pc, stack, hc, cc,
          vis, vision_state, cache_writer, rt, memory_file, client, appends,
          vision_writer, px>>

----------------------------------------------------------------------------
(* Bounds of the model *)

MaxClock == 31
TickStep == 15
MaxRetriesBound == 2

(* The request threads of the server *)
Threads == {"t1", "t2"}

(* Program constant: the freshness window of the health cache *)
FreshWindow == 30

None == "None"

(* Outcomes of GET /v1/models as seen by health_check *)
GetOutcomes == {"200", "404", "conn", "timeout", "error"}

(* The bodies of a 200 answer that lack choices[0].message.content: a key  *)
(* is missing (KeyError), choices is an empty list (IndexError), the body  *)
(* is not an object (TypeError)                                            *)
Malformed == {"missing_key", "empty_choices", "non_object"}

(* Outcomes of POST /v1/chat/completions as seen by the completion calls:  *)
(* 200 with content, HTTP error status, 200 with a malformed body,         *)
(* connection refused, timeout, anything else                              *)
PostOutcomes == {"ok", "http_error", "conn", "timeout", "error"} \cup Malformed

Contents == {"", "answer"}

Clocks == 1..MaxClock

----------------------------------------------------------------------------
(* Thread-local records and their values at rest *)

(* ret is <<>> until health_check returns and <<b>> once it returned b *)
HcIdle == [force |-> FALSE, now |-> 0, status |-> None, ret |-> <<>>, gets |-> 0]

(* log holds the outcomes of the POSTs of the call in progress, made those *)
(* of the call that has returned                                           *)
CcIdle == [kind |-> None, attempt |-> 0, log |-> <<>>, sleeps |-> 0, ret |-> None,
           made |-> <<>>]

(* prompt and vision_prompt are texts, sequences of characters: prompt has *)
(* the default "" of line 105 and vision_prompt is empty until line 155    *)
VisIdle == [intent |-> None, prompt |-> <<>>, cap |-> None, frame |-> None,
            image |-> None, vision_prompt |-> <<>>, ret |-> None]

(* route is the Flask route being served; prompt is a text; lm_healthy is  *)
(* <<>> until the route has asked health_check() and <<b>> after it        *)
(* answered b; entry and data are the argument and the local of            *)
(* save_context; appended counts the entries the request has written;      *)
(* connected and loaded_models are the fields of the health report and     *)
(* models_gets counts the GETs of get_loaded_models; events is the history *)
(* of the request: what it has done so far, in order; body is the JSON     *)
(* body of the request, held while the route can still read it             *)
NoBody == [kind |-> None, prompt |-> <<>>, input |-> <<>>, messages |-> <<>>]

RtIdle == [route |-> None, body |-> NoBody, linked_user |-> None, prompt |-> <<>>,
           classified |-> FALSE, intent |-> None, lm_healthy |-> <<>>,
           response_text |-> None, entry |-> <<>>, data |-> <<>>,
           appended |-> 0, status |-> None, returned |-> None,
           connected |-> <<>>, loaded_models |-> None, models_gets |-> 0,
           events |-> <<>>]

(* the request a task of the proxy serves: its route, its x-api-key header *)
(* (<<>> when absent), whether its body fits ChatRequest, the status of    *)
(* the response, and the number of requests sent to the inference backend  *)
(* on its behalf                                                           *)
PxIdle == [route |-> None, key |-> <<>>, body_valid |-> TRUE, status |-> None,
           sent |-> 0]

VisionStateInit == [intent |-> None, active |-> FALSE, result |-> None,
                    updated_at |-> 0]

InitShared ==
    /\ clock = 1
    /\ max_retries \in 1..MaxRetriesBound
    /\ is_healthy = FALSE
    /\ last_health_check = <<>>
    /\ pc = [t \in Threads |-> "idle"]
    /\ stack = [t \in Threads |-> <<>>]
    /\ hc = [t \in Threads |-> HcIdle]
    /\ cc = [t \in Threads |-> CcIdle]
    /\ vis = [t \in Threads |-> VisIdle]
    /\ vision_state = VisionStateInit
    /\ cache_writer = [is_healthy |-> None, last_health_check |-> None]
    /\ rt = [t \in Threads |-> RtIdle]
    /\ memory_file = <<>>
    /\ appends = 0
    /\ vision_writer = [intent |-> None, result |-> None]
    /\ px = [t \in Threads |-> PxIdle]

(* the server process: the boot sequence has built the client singleton    *)
(* (lana_server_fixed.py line 50)                                          *)
Init ==
    /\ InitShared
    /\ client = "ready"

(* Time passes *)
Tick ==
    /\ clock + TickStep <= MaxClock
    /\ clock' = clock + TickStep
    /\ UNCHANGED <<max_retries, is_healthy, last_health_check, pc, stack, hc, cc,
                   vis, vision_state, cache_writer, rt, memory_file, client, appends,
                   vision_writer, px>>

----------------------------------------------------------------------------
(* health_check *)

(* Python truthiness of self._last_health_check: None and 0.0 are falsy *)
Truthy(l) == l # <<>> /\ l[1] # 0

(* faulty variant: a forced check is served from the cache too *)
UsesCache_IgnoresForce(force, l) == Truthy(l)

(* line 51: if not force and self._last_health_check *)
UsesCache(force, l) == ~force /\ Truthy(l)

(* faulty variant: the cached result is never taken as fresh *)
IsFresh_Never(nowv, l) == FALSE

(* line 52: now - self._last_health_check < 30 *)
IsFresh(nowv, l) == nowv - l[1] < FreshWindow

(* line 61: response.status_code == 200 *)
StatusHealthy(s) == s = "200"

(* the outcomes of the GET that are exceptions raised by requests.get *)
IsException(s) == s \in {"conn", "timeout", "error"}

(* lines 61, 72, 79, 85: the value stored in self._is_healthy *)
ProbeHealthy(s) == IF IsException(s) THEN FALSE ELSE StatusHealthy(s)

(* faulty variant: no catch-all clause after ConnectionError and Timeout *)
HcCatches_NoCatchAll(s) == s \in {"conn", "timeout"}

(* lines 71, 78, 84: the except clauses of health_check *)
HcCatches(s) == s \in {"conn", "timeout", "error"}

(* the caller's step that calls health_check(force): push the return label *)
CallHealthCheck(t, force, cont) ==
    /\ pc' = [pc EXCEPT ![t] = "hc_entry"]
    /\ stack' = [stack EXCEPT ![t] = <<cont>> \o @]
    /\ hc' = [hc EXCEPT ![t] = [HcIdle EXCEPT !.force = force]]

(* line 48 and the test of line 51 *)
HcEntry(t) ==
    /\ pc[t] = "hc_entry"
    /\ hc' = [hc EXCEPT ![t].now = clock]
    /\ pc' = [pc EXCEPT ![t] =
                IF UsesCache(hc[t].force, last_health_check)
                THEN "hc_fresh" ELSE "hc_get"]
    /\ UNCHANGED <<clock, max_retries, is_healthy, last_health_check, stack, cc,
                   vis, vision_state, cache_writer, rt, memory_file, client, appends,
                   vision_writer, px>>

(* line 52 *)
HcFreshTest(t) ==
    /\ pc[t] = "hc_fresh"
    /\ pc' = [pc EXCEPT ![t] =
                IF IsFresh(hc[t].now, last_health_check)
                THEN "hc_cached" ELSE "hc_get"]
    /\ UNCHANGED <<clock, max_retries, is_healthy, last_health_check, stack, hc,
                   cc, vis, vision_state, cache_writer, rt, memory_file, client, appends,
                   vision_writer, px>>

(* line 53: return self._is_healthy *)
HcCached(t) ==
    /\ pc[t] = "hc_cached"
    /\ hc' = [hc EXCEPT ![t].ret = <<is_healthy>>]
    /\ pc' = [pc EXCEPT ![t] = "hc_done"]
    /\ UNCHANGED <<clock, max_retries, is_healthy, last_health_check, stack, cc,
                   vis, vision_state, cache_writer, rt, memory_file, client, appends,
                   vision_writer, px>>

(* lines 56-59: the GET to the model-listing endpoint and its outcome *)
HcGet(t) ==
    /\ pc[t] = "hc_get"
    /\ \E s \in GetOutcomes :
        /\ hc' = [hc EXCEPT ![t].status = s, ![t].gets = @ + 1]
        /\ pc' = [pc EXCEPT ![t] =
                    IF IsException(s) /\ ~HcCatches(s) THEN "raised" ELSE "hc_w1"]
    /\ UNCHANGED <<clock, max_retries, is_healthy, last_health_check, stack, cc,
                   vis, vision_state, cache_writer, rt, memory_file, client, appends,
                   vision_writer, px>>

(* lines 61, 72, 79, 85: the write of self._is_healthy *)
HcWriteHealthy(t) ==
    /\ pc[t] = "hc_w1"
    /\ is_healthy' = ProbeHealthy(hc[t].status)
    /\ cache_writer' = [cache_writer EXCEPT !.is_healthy = t]
    /\ pc' = [pc EXCEPT ![t] = "hc_w2"]
    /\ UNCHANGED <<clock, max_retries, last_health_check, stack, hc, cc, vis,
                   vision_state, rt, memory_file, client, appends,
                   vision_writer, px>>

(* lines 62, 73, 80, 86: the write of self._last_health_check; the except *)
(* clauses then return False (lines 76, 82, 88)                            *)
HcWriteChecked(t) ==
    /\ pc[t] = "hc_w2"
    /\ last_health_check' = <<hc[t].now>>
    /\ cache_writer' = [cache_writer EXCEPT !.last_health_check = t]
    /\ IF IsException(hc[t].status)
       THEN /\ hc' = [hc EXCEPT ![t].ret = <<FALSE>>]
            /\ pc' = [pc EXCEPT ![t] = "hc_done"]
       ELSE /\ hc' = hc
            /\ pc' = [pc EXCEPT ![t] = "hc_read"]
    /\ UNCHANGED <<clock, max_retries, is_healthy, stack, cc, vis, vision_state,
                   rt, memory_file, client, appends, vision_writer, px>>

(* line 69: return self._is_healthy *)
HcReadBack(t) ==
    /\ pc[t] = "hc_read"
    /\ hc' = [hc EXCEPT ![t].ret = <<is_healthy>>]
    /\ pc' = [pc EXCEPT ![t] = "hc_done"]
    /\ UNCHANGED <<clock, max_retries, is_healthy, last_health_check, stack, cc,
                   vis, vision_state, cache_writer, rt, memory_file, client, appends,
                   vision_writer, px>>

(* control returns to the caller of health_check *)
HcReturn(t) ==
    /\ pc[t] = "hc_done"
    /\ stack[t] # <<>>
    /\ pc' = [pc EXCEPT ![t] = Head(stack[t])]
    /\ stack' = [stack EXCEPT ![t] = Tail(@)]
    /\ hc' = [hc EXCEPT ![t].force = FALSE, ![t].now = 0]
    /\ UNCHANGED <<clock, max_retries, is_healthy, last_health_check, cc, vis,
                   vision_state, cache_writer, rt, memory_file, client, appends,
                   vision_writer, px>>

----------------------------------------------------------------------------
(* chat_completion and vision_completion *)

(* faulty variant: an HTTP error status is retried like a refusal *)
Retryable_RetriesHttpError(o) == o \in {"conn", "timeout", "http_error"}

(* lines 180-188: the outcomes the retry loop goes round again on *)
Retryable(o) == o \in {"conn", "timeout"}

(* faulty variant: the loop never sleeps *)
SleepsAfter_Never(attempt) == FALSE

(* faulty variant: the loop also sleeps after its last attempt *)
SleepsAfter_EveryAttempt(attempt) == attempt < max_retries

(* lines 182, 187: if attempt < self.max_retries - 1: time.sleep(...) *)
SleepsAfter(attempt) == attempt < max_retries - 1

(* faulty variant: no catch-all clause after the KeyError clause *)
CcCatches_NoCatchAll(o) == o \in {"conn", "timeout", "http_error", "missing_key"}

(* lines 180-200: the except clauses of chat_completion, the last of which *)
(* is except Exception                                                     *)
CcCatches(o) == o \in PostOutcomes \ {"ok"}

(* faulty variant: one attempt too many *)
MoreAttempts_OneExtra(attempt) == attempt <= max_retries

(* line 166: for attempt in range(self.max_retries) *)
MoreAttempts(attempt) == attempt < max_retries

(* faulty variant: a refused or timed-out POST marks the backend unhealthy *)
HealthAfterPost_MarksDown(o, healthy) ==
    IF o \in {"conn", "timeout"} THEN FALSE ELSE healthy

(* lines 166-202: no clause of the retry loop assigns self._is_healthy *)
HealthAfterPost(o, healthy) == healthy

(* the value chat_completion / vision_completion returns for an outcome    *)
(* that ends the call: the content (line 178, 259) or None                 *)
ResultOf(o, content) == IF o = "ok" THEN content ELSE None

(* faulty variant: the result of the health check is ignored *)
ReturnsEarly_Never(healthy) == FALSE

(* lines 146, 224: if not self.health_check() *)
ReturnsEarly(healthy) == ~healthy

(* chat_completion / vision_completion is called: health_check() first *)
StartCompletion(t) ==
    /\ pc[t] = "idle"
    /\ \E k \in {"chat", "vision"} :
        /\ cc' = [cc EXCEPT ![t] = [CcIdle EXCEPT !.kind = k]]
        /\ CallHealthCheck(t, FALSE, "cc_after_hc")
        /\ stack[t] = <<>>
    /\ UNCHANGED <<clock, max_retries, is_healthy, last_health_check, vis,
                   vision_state, cache_writer, rt, memory_file, client, appends,
                   vision_writer, px>>

(* lines 146-147 / 224-225, then the payload is built (local) *)
CcAfterHealth(t) ==
    /\ pc[t] = "cc_after_hc"
    /\ IF ReturnsEarly(hc[t].ret[1])
       THEN /\ pc' = [pc EXCEPT ![t] = "cc_done"]
            /\ cc' = [cc EXCEPT ![t].ret = None]
       ELSE /\ pc' = [pc EXCEPT ![t] = IF cc[t].kind = "chat" THEN "cc_loop" ELSE "vc_post"]
            /\ cc' = cc
    /\ UNCHANGED <<clock, max_retries, is_healthy, last_health_check, stack, hc,
                   vis, vision_state, cache_writer, rt, memory_file, client, appends,
                   vision_writer, px>>

(* lines 166-202: one iteration of the retry loop, or its exit at line 202 *)
CcAttempt(t) ==
    /\ pc[t] = "cc_loop"
    /\ IF MoreAttempts(cc[t].attempt)
       THEN \E o \in PostOutcomes, c \in Contents :
              /\ (o # "ok" => c = "")
              /\ is_healthy' = HealthAfterPost(o, is_healthy)
              /\ IF o # "ok" /\ ~CcCatches(o)
                 THEN /\ pc' = [pc EXCEPT ![t] = "raised"]
                      /\ cc' = [cc EXCEPT ![t].log = Append(@, o)]
                 ELSE IF Retryable(o)
                 THEN IF SleepsAfter(cc[t].attempt)
                      THEN /\ pc' = [pc EXCEPT ![t] = "cc_sleep"]
                           /\ cc' = [cc EXCEPT ![t].log = Append(@, o)]
                      ELSE /\ pc' = pc
                           /\ cc' = [cc EXCEPT ![t].log = Append(@, o),
                                               ![t].attempt = @ + 1]
                 ELSE /\ pc' = [pc EXCEPT ![t] = "cc_done"]
                      /\ cc' = [cc EXCEPT ![t].log = Append(@, o),
                                          ![t].ret = ResultOf(o, c)]
       ELSE /\ pc' = [pc EXCEPT ![t] = "cc_done"]
            /\ cc' = [cc EXCEPT ![t].ret = None]
            /\ UNCHANGED is_healthy
    /\ UNCHANGED <<clock, max_retries, last_health_check, stack, hc,
                   vis, vision_state, cache_writer, rt, memory_file, client, appends,
                   vision_writer, px>>

(* lines 183, 188: time.sleep(self.retry_delay), then the next iteration *)
CcSleep(t) ==
    /\ pc[t] = "cc_sleep"
    /\ cc' = [cc EXCEPT ![t].sleeps = @ + 1, ![t].attempt = @ + 1]
    /\ pc' = [pc EXCEPT ![t] = "cc_loop"]
    /\ UNCHANGED <<clock, max_retries, is_healthy, last_health_check, stack, hc,
                   vis, vision_state, cache_writer, rt, memory_file, client, appends,
                   vision_writer, px>>

(* lines 248-263: the single POST of vision_completion *)
VcPost(t) ==
    /\ pc[t] = "vc_post"
    /\ \E o \in PostOutcomes, c \in Contents :
        /\ (o # "ok" => c = "")
        /\ cc' = [cc EXCEPT ![t].log = Append(@, o), ![t].ret = ResultOf(o, c)]
    /\ pc' = [pc EXCEPT ![t] = "cc_done"]
    /\ UNCHANGED <<clock, max_retries, is_healthy, last_health_check, stack, hc,
                   vis, vision_state, cache_writer, rt, memory_file, client, appends,
                   vision_writer, px>>

(* control returns to the caller of the completion *)
CcReturn(t) ==
    /\ pc[t] = "cc_done"
    /\ pc' = [pc EXCEPT ![t] = IF stack[t] = <<>> THEN "top_done" ELSE Head(stack[t])]
    /\ stack' = [stack EXCEPT ![t] = IF @ = <<>> THEN @ ELSE Tail(@)]
    /\ cc' = [cc EXCEPT ![t] = [CcIdle EXCEPT !.ret = cc[t].ret,
                                              !.made = cc[t].log]]
    /\ UNCHANGED <<clock, max_retries, is_healthy, last_health_check, hc, vis,
                   vision_state, cache_writer, rt, memory_file, client, appends,
                   vision_writer, px>>

----------------------------------------------------------------------------
(* vision_state.update_vision_state: the fields given replace those of the *)
(* published record in one step, the others are kept                       *)

Keep == "Keep"

UpdateVisionState(intent, active, result) ==
    vision_state' =
        [intent     |-> IF intent = Keep THEN vision_state.intent ELSE intent,
         active     |-> active,
         result     |-> IF result = Keep THEN vision_state.result ELSE result,
         updated_at |-> clock]

(* history of update_vision_state: the thread t is the writer of the      *)
(* fields its call gives                                                   *)
PublishedBy(t, intent, result) ==
    vision_writer' =
        [intent |-> IF intent = Keep THEN vision_writer.intent ELSE t,
         result |-> IF result = Keep THEN vision_writer.result ELSE t]

----------------------------------------------------------------------------
(* handle_vision_intent and _capture_frame *)

VISION_INTENTS == {"see", "see_me", "check_wellbeing", "identify_objects",
                   "read_text", "save_view"}

(* the intents the model's concurrent requests carry *)
RequestIntents == {"see", "read_text"}

(* A text is a sequence of characters.  The caller's texts are runs of one *)
(* letter, of every length up to MaxPromptLen                              *)
MaxPromptLen == 11

UserText(n) == [i \in 1..n |-> "x"]

UserTexts == {UserText(n) : n \in 0..MaxPromptLen}

(* the text the model's concurrent requests carry *)
RequestTexts == {UserText(MaxPromptLen)}

(* _get_vision_prompt lines 67-93: the default instruction of each intent, *)
(* each written as one symbol holding the opening words of the string      *)
prompts ==
    [i \in VISION_INTENTS |->
        CASE i = "see"              -> <<"Describe what you see in this image">>
          [] i = "see_me"           -> <<"Is there a person visible in this image?">>
          [] i = "check_wellbeing"  -> <<"Analyze the person in this image.">>
          [] i = "identify_objects" -> <<"List all objects you can identify">>
          [] i = "read_text"        -> <<"Extract and transcribe any visible text">>
          [] i = "save_view"        -> <<"Describe this scene in detail">>]

(* line 96: len(user_prompt) > 10 *)
PromptMinLen == 10

(* line 96: a custom instruction is one that is non-empty and longer than  *)
(* PromptMinLen characters                                                 *)
IsCustom_AtLeast(user_prompt) ==
    user_prompt # <<>> /\ Len(user_prompt) >= PromptMinLen

IsCustom(user_prompt) ==
    user_prompt # <<>> /\ Len(user_prompt) > PromptMinLen

(* _get_vision_prompt lines 96-100 *)
GetVisionPrompt(intent, user_prompt) ==
    IF IsCustom(user_prompt)
    THEN user_prompt
    ELSE IF intent \in DOMAIN prompts
         THEN prompts[intent]
         ELSE <<"Describe what you see.">>

(* line 128: if not image_b64 *)
CaptureFailed_Never(image) == FALSE

CaptureFailed(image) == image = None

(* faulty variant: the health check of the vision pipeline is ignored *)
VisionUnhealthy_Never(healthy) == FALSE

(* vision_router line 163: if not lm_client.health_check() *)
VisionUnhealthy(healthy) == ~healthy

(* get_client (lm_studio_client.py lines 267-274): the singleton is built  *)
(* on first use, and building it raises when lana_config.json is missing   *)
(* or is not JSON (lines 30-40)                                            *)
GetClientOutcomes(c) == IF c = None THEN {"ready", "raise"} ELSE {"ready"}

(* Python truthiness of a returned text: None and "" are falsy *)
TruthyText(x) == x # None /\ x # ""

(* the thread holds the camera: it has opened the device (line 33) and has *)
(* not yet released it (line 37, or the handle dropped on an exception)    *)
HoldsCamera(t) == vis[t].cap = "opened"

(* vision_router lines 120-123: update_vision_state(intent, active=True) *)
EnterVision(t, i, p) ==
    /\ vis' = [vis EXCEPT ![t] = [VisIdle EXCEPT !.intent = i, !.prompt = p]]
    /\ UpdateVisionState(i, TRUE, Keep)
    /\ PublishedBy(t, i, Keep)
    /\ pc' = [pc EXCEPT ![t] = "cap_open"]

(* handle_vision_intent called for one of the concurrent requests *)
StartVision(t) ==
    /\ pc[t] = "idle"
    /\ \E i \in RequestIntents, p \in RequestTexts : EnterVision(t, i, p)
    /\ UNCHANGED <<clock, max_retries, is_healthy, last_health_check, stack, hc, cc,
                   cache_writer, rt, memory_file, client, appends, px>>

(* line 33: cap = cv2.VideoCapture(0).  Nothing in the code looks at who   *)
(* else has the device: the driver opens it again, or does not             *)
CapOpen(t) ==
    /\ pc[t] = "cap_open"
    /\ \E opened \in BOOLEAN :
        vis' = [vis EXCEPT ![t].cap = IF opened THEN "opened" ELSE "not_opened"]
    /\ pc' = [pc EXCEPT ![t] = "cap_warm"]
    /\ UNCHANGED <<clock, max_retries, is_healthy, last_health_check, stack, hc, cc,
                   vision_state, cache_writer, rt, memory_file, client, appends,
                   vision_writer, px>>

(* line 34: time.sleep(0.2) *)
CapWarmUp(t) ==
    /\ pc[t] = "cap_warm"
    /\ pc' = [pc EXCEPT ![t] = "cap_read"]
    /\ UNCHANGED <<clock, max_retries, is_healthy, last_health_check, stack, hc, cc,
                   vis, vision_state, cache_writer, rt, memory_file, client, appends,
                   vision_writer, px>>

(* line 36: ret, frame = cap.read(); an exception goes to line 50 and the  *)
(* handle is dropped                                                       *)
CapRead(t) ==
    /\ pc[t] = "cap_read"
    /\ \E r \in {"frame", "no_frame", "exception"} :
        /\ (vis[t].cap # "opened" => r # "frame")
        /\ IF r = "exception"
           THEN /\ vis' = [vis EXCEPT ![t].cap = None, ![t].image = None]
                /\ pc' = [pc EXCEPT ![t] = "v_captured"]
           ELSE /\ vis' = [vis EXCEPT ![t].frame = r]
                /\ pc' = [pc EXCEPT ![t] = "cap_release"]
    /\ UNCHANGED <<clock, max_retries, is_healthy, last_health_check, stack, hc, cc,
                   vision_state, cache_writer, rt, memory_file, client, appends,
                   vision_writer, px>>

(* lines 37-52: cap.release(), then the frame is encoded or None returned *)
CapRelease(t) ==
    /\ pc[t] = "cap_release"
    /\ \E encoded \in BOOLEAN :
        vis' = [vis EXCEPT ![t].cap = None,
                           ![t].image = IF vis[t].frame = "frame" /\ encoded
                                        THEN "jpeg" ELSE None]
    /\ pc' = [pc EXCEPT ![t] = "v_captured"]
    /\ UNCHANGED <<clock, max_retries, is_healthy, last_health_check, stack, hc, cc,
                   vision_state, cache_writer, rt, memory_file, client, appends,
                   vision_writer, px>>

(* lines 128-155: no image ends the call; otherwise the instruction is    *)
(* chosen                                                                  *)
VAfterCapture(t) ==
    /\ pc[t] = "v_captured"
    /\ IF CaptureFailed(vis[t].image)
       THEN /\ UpdateVisionState(Keep, FALSE, "Camera capture failed")
            /\ PublishedBy(t, Keep, "Camera capture failed")
            /\ vis' = [vis EXCEPT ![t].ret = "camera_failed"]
            /\ pc' = [pc EXCEPT ![t] = "v_done"]
       ELSE /\ vis' = [vis EXCEPT ![t].vision_prompt =
                                    GetVisionPrompt(vis[t].intent, vis[t].prompt)]
            /\ pc' = [pc EXCEPT ![t] = "v_get_client"]
            /\ UNCHANGED <<vision_state, vision_writer>>
    /\ UNCHANGED <<clock, max_retries, is_healthy, last_health_check, stack, hc, cc,
                   cache_writer, rt, memory_file, client, appends, px>>

(* lines 160-163: lm_client = get_client(), outside any try, and then      *)
(* health_check()                                                          *)
VGetClient(t) ==
    /\ pc[t] = "v_get_client"
    /\ \E o \in GetClientOutcomes(client) :
        IF o = "raise"
        THEN /\ pc' = [pc EXCEPT ![t] = "raised"]
             /\ UNCHANGED <<stack, hc, client>>
        ELSE /\ client' = "ready"
             /\ CallHealthCheck(t, FALSE, "v_after_hc")
    /\ UNCHANGED <<clock, max_retries, is_healthy, last_health_check, cc, vis,
                   vision_state, cache_writer, rt, memory_file, appends,
                   vision_writer, px>>

(* lines 163-176: unhealthy ends the call; otherwise vision_completion,   *)
(* which starts with its own health_check() (client line 224)              *)
VAfterHealth(t) ==
    /\ pc[t] = "v_after_hc"
    /\ IF VisionUnhealthy(hc[t].ret[1])
       THEN /\ UpdateVisionState(Keep, FALSE, "LM Studio not connected")
            /\ PublishedBy(t, Keep, "LM Studio not connected")
            /\ vis' = [vis EXCEPT ![t].ret = "lm_studio_disconnected"]
            /\ pc' = [pc EXCEPT ![t] = "v_done"]
            /\ UNCHANGED <<stack, hc, cc>>
       ELSE /\ cc' = [cc EXCEPT ![t] = [CcIdle EXCEPT !.kind = "vision"]]
            /\ pc' = [pc EXCEPT ![t] = "hc_entry"]
            /\ stack' = [stack EXCEPT ![t] = <<"cc_after_hc", "v_after_vc">> \o @]
            /\ hc' = [hc EXCEPT ![t] = HcIdle]
            /\ UNCHANGED <<vis, vision_state, vision_writer>>
    /\ UNCHANGED <<clock, max_retries, is_healthy, last_health_check, cache_writer,
                   rt, memory_file, client, appends, px>>

(* lines 178-197: the answer, or "no response" *)
VAfterCompletion(t) ==
    /\ pc[t] = "v_after_vc"
    /\ IF TruthyText(cc[t].ret)
       THEN /\ UpdateVisionState(Keep, FALSE, cc[t].ret)
            /\ PublishedBy(t, Keep, cc[t].ret)
            /\ vis' = [vis EXCEPT ![t].ret = "success"]
       ELSE /\ UpdateVisionState(Keep, FALSE, "Vision model returned no response")
            /\ PublishedBy(t, Keep, "Vision model returned no response")
            /\ vis' = [vis EXCEPT ![t].ret = "no_response"]
    /\ pc' = [pc EXCEPT ![t] = "v_done"]
    /\ UNCHANGED <<clock, max_retries, is_healthy, last_health_check, stack, hc, cc,
                   cache_writer, rt, memory_file, client, appends, px>>

(* control returns to the caller of handle_vision_intent *)
VReturn(t) ==
    /\ pc[t] = "v_done"
    /\ pc' = [pc EXCEPT ![t] = IF stack[t] = <<>> THEN "top_done" ELSE Head(stack[t])]
    /\ stack' = [stack EXCEPT ![t] = IF @ = <<>> THEN @ ELSE Tail(@)]
    /\ UNCHANGED <<clock, max_retries, is_healthy, last_health_check, hc, cc, vis,
                   vision_state, cache_writer, rt, memory_file, client, appends,
                   vision_writer, px>>

----------------------------------------------------------------------------
(* save_context and load_memory (lana_server_fixed.py lines 83-119).  The  *)
(* file is modelled by its recent_memory list; a file that is missing, or  *)
(* that open(.., "w") has emptied and json.dump has not yet filled, loads   *)
(* as the empty list (lines 85-97)                                         *)

(* line 115: the capacity of recent_memory *)
HistoryMax == 100

(* faulty variant: the oldest entries are kept *)
KeepLast_KeepsOldest(d) ==
    IF Len(d) > HistoryMax THEN SubSeq(d, 1, HistoryMax) ELSE d

(* lines 115-116: data["recent_memory"][-100:] when longer than 100 *)
KeepLast(d) ==
    IF Len(d) > HistoryMax THEN SubSeq(d, Len(d) - HistoryMax + 1, Len(d)) ELSE d

(* outcomes of open(MEMORY_FILE, "w") at line 118 *)
OpenOutcomes == {"opened", "raise"}

(* save_context(entry) is called *)
CallSaveContext(t, entry, cont) ==
    /\ rt' = [rt EXCEPT ![t].entry = entry]
    /\ pc' = [pc EXCEPT ![t] = "sc_load"]
    /\ stack' = [stack EXCEPT ![t] = <<cont>> \o @]

(* lines 111-116: the file is read, the entry appended to the list read    *)
(* and the list cut to its last HistoryMax entries                         *)
ScLoad(t) ==
    /\ pc[t] = "sc_load"
    /\ rt' = [rt EXCEPT ![t].data = KeepLast(Append(memory_file, rt[t].entry))]
    /\ pc' = [pc EXCEPT ![t] = "sc_open"]
    /\ UNCHANGED <<clock, max_retries, is_healthy, last_health_check, stack, hc, cc,
                   vis, vision_state, cache_writer, memory_file, client, appends,
                   vision_writer, px>>

(* line 118: open(MEMORY_FILE, "w") empties the file, or raises and leaves *)
(* it as it was                                                            *)
ScOpen(t) ==
    /\ pc[t] = "sc_open"
    /\ \E o \in OpenOutcomes :
        IF o = "raise"
        THEN /\ pc' = [pc EXCEPT ![t] = "raised"]
             /\ UNCHANGED memory_file
        ELSE /\ pc' = [pc EXCEPT ![t] = "sc_dump"]
             /\ memory_file' = <<>>
    /\ UNCHANGED <<clock, max_retries, is_healthy, last_health_check, stack, hc, cc,
                   vis, vision_state, cache_writer, rt, client, appends,
                   vision_writer, px>>

(* line 119: json.dump writes the list, and save_context returns *)
ScDump(t) ==
    /\ pc[t] = "sc_dump"
    /\ memory_file' = rt[t].data
    /\ appends' = appends + 1
    /\ rt' = [rt EXCEPT ![t].appended = @ + 1,
                        ![t].events = Append(@, "append")]
    /\ pc' = [pc EXCEPT ![t] = Head(stack[t])]
    /\ stack' = [stack EXCEPT ![t] = Tail(@)]
    /\ UNCHANGED <<clock, max_retries, is_healthy, last_health_check, hc, cc,
                   vis, vision_state, cache_writer, client, vision_writer, px>>

(* the number of save_context calls the history model makes *)
MaxAppends == 150

(* the number of save_context calls threads make side by side *)
MaxPairAppends == 3

(* the threads that are inside save_context *)
Saving == {t \in Threads : pc[t] \in {"sc_load", "sc_open", "sc_dump"}}

(* save_context is called with a new entry, the n-th one *)
StartSave(t) ==
    /\ pc[t] = "idle"
    /\ appends < MaxAppends
    /\ CallSaveContext(t, [by |-> t, n |-> appends + 1], "top_done")
    /\ UNCHANGED <<clock, max_retries, is_healthy, last_health_check, hc, cc,
                   vis, vision_state, cache_writer, memory_file, client, appends,
                   vision_writer, px>>

(* save_context is called by a request while another may be inside it *)
StartSavePair(t) ==
    /\ pc[t] = "idle"
    /\ appends + Cardinality(Saving) < MaxPairAppends
    /\ CallSaveContext(t, [by |-> t, n |-> appends + 1], "top_done")
    /\ UNCHANGED <<clock, max_retries, is_healthy, last_health_check, hc, cc,
                   vis, vision_state, cache_writer, memory_file, client, appends,
                   vision_writer, px>>

----------------------------------------------------------------------------
(* The routes of lana_server_fixed.py: chat_completions (lines 155-279)    *)
(* and health (lines 139-152)                                              *)

(* lines 210-214, 230, 175: the fixed texts of the route *)
Apology == "I can't connect to my language model right now. Please make sure LM Studio is running and the server is started."

Trouble == "I'm having trouble generating a response right now."

NoInput == "No input provided"

(* line 197: f"Vision error: {vision_result['error']}" *)
VisionErrorText(err) ==
    CASE err = "camera_failed"          -> "Vision error: camera_failed"
      [] err = "lm_studio_disconnected" -> "Vision error: lm_studio_disconnected"
      [] err = "no_response"            -> "Vision error: no_response"
      [] OTHER                          -> "Vision error: vision_failed"

(* A value of the JSON body is <<>> when its key is absent (dict.get gives *)
(* None) and <<x>> when it is the text x; the texts are "" and the text of *)
(* the model's requests                                                    *)
FieldValues == {<<>>, <<UserText(0)>>} \cup {<<p>> : p \in RequestTexts}

(* the messages array: absent, or a list of messages, each an object with  *)
(* or without a content                                                    *)
Messages == {[content |-> c] : c \in FieldValues}

MessageLists ==
    {<<>>} \cup {<<m>> : m \in Messages} \cup {<<m, n>> : m, n \in Messages}

(* the request body: an object with or without prompt, input and messages, *)
(* a JSON value that is not an object (body.get raises at line 166), or    *)
(* not JSON at all (get_json raises at line 163)                           *)
BodyKinds == {"object", "not_object", "not_json"}

Bodies ==
    [kind : {"object"}, prompt : FieldValues, input : FieldValues,
     messages : {<<>>} \cup {<<l>> : l \in MessageLists}]
    \cup {[NoBody EXCEPT !.kind = k] : k \in BodyKinds \ {"object"}}

(* Python truthiness of a value that is None or a text *)
TruthyValue(v) == v # <<>> /\ v[1] # <<>>

(* lines 166-172: prompt, else input, else the content of the last message *)
(* (default "") when messages is a non-empty list                          *)
ExtractPrompt(body) ==
    LET first == IF TruthyValue(body.prompt) THEN body.prompt ELSE body.input
        messages == IF body.messages = <<>> THEN <<>> ELSE body.messages[1]
        last == messages[Len(messages)].content
    IN  IF TruthyValue(first) THEN first
        ELSE IF messages # <<>>
             THEN (IF last = <<>> THEN <<UserText(0)>> ELSE last)
             ELSE first

(* faulty variant: only a missing prompt is rejected, an empty one is not *)
NoPrompt_OnlyNone(prompt) == prompt = <<>>

(* line 174: if not prompt *)
NoPrompt(prompt) == ~TruthyValue(prompt)

(* line 178: the user the request names *)
Users == {"unknown"}

(* intent_engine.match_intent: the intent the text matches, None when it   *)
(* matches none, or a failure of the matcher                               *)
LocalIntents == {"open_app"}

MatchOutcomes == {None, "raise"} \cup RequestIntents \cup LocalIntents

(* actions.execute_command: the text it returns, or a failure *)
CommandOutcomes == {"done", "raise"}

(* faulty variant: no intent is taken for a vision intent *)
IsVisionIntent_Never(intent) == FALSE

(* line 192: if intent in VISION_INTENTS *)
IsVisionIntent(intent) == intent \in VISION_INTENTS

(* faulty variant: the model listing is fetched whatever the health is *)
FetchesModels_Always(healthy) == TRUE

(* line 143: get_loaded_models() if lm_healthy else [] *)
FetchesModels(healthy) == healthy

(* faulty variant: nothing is caught *)
RouterCatches_Nothing(e) == FALSE

(* line 271: except Exception *)
RouterCatches(e) == e = "Exception"

(* faulty variant: the health check of the route is ignored *)
RouterUnhealthy_Never(healthy) == FALSE

(* line 210: if not lm_client.health_check() *)
RouterUnhealthy(healthy) == ~healthy

(* faulty variant: the entry is written without the intent *)
EntryOf_NoIntent(user, prompt, response, intent) ==
    [user |-> user, prompt |-> prompt, response |-> response, intent |-> None]

(* lines 239-244: the entry handed to save_context *)
EntryOf(user, prompt, response, intent) ==
    [user |-> user, prompt |-> prompt, response |-> response, intent |-> intent]

(* the number of chat requests the router model serves *)
MaxRequests == 1

(* line 155: a POST to /v1/chat/completions arrives with its body *)
ReceiveRequest(t) ==
    /\ pc[t] = "idle"
    /\ appends < MaxRequests
    /\ \E b \in Bodies :
        rt' = [rt EXCEPT ![t] = [RtIdle EXCEPT !.route = "chat", !.body = b]]
    /\ pc' = [pc EXCEPT ![t] = "r_parse"]
    /\ UNCHANGED <<clock, max_retries, is_healthy, last_health_check, stack, hc, cc,
                   vis, vision_state, cache_writer, memory_file, client, appends,
                   vision_writer, px>>

(* lines 162-178: the body is parsed and the prompt extracted; the body is *)
(* not read after line 178                                                 *)
StartRequest(t) ==
    /\ pc[t] = "r_parse"
    /\ \E u \in Users :
        IF rt[t].body.kind # "object"
        THEN /\ rt' = [rt EXCEPT ![t].body = NoBody]
             /\ pc' = [pc EXCEPT ![t] = "raised"]
        ELSE IF NoPrompt(ExtractPrompt(rt[t].body))
        THEN /\ rt' = [rt EXCEPT ![t].status = "400",
                                 ![t].returned = NoInput]
             /\ pc' = [pc EXCEPT ![t] = "r_done"]
        ELSE /\ rt' = [rt EXCEPT ![t].body = NoBody,
                                 ![t].linked_user = u,
                                 ![t].prompt = ExtractPrompt(rt[t].body)[1]]
             /\ pc' = [pc EXCEPT ![t] = "r_classify"]
    /\ UNCHANGED <<clock, max_retries, is_healthy, last_health_check, stack, hc, cc,
                   vis, vision_state, cache_writer, memory_file, client, appends,
                   vision_writer, px>>

(* line 186: intent = match_intent(prompt) *)
RClassify(t) ==
    /\ pc[t] = "r_classify"
    /\ \E m \in MatchOutcomes :
        IF m = "raise"
        THEN /\ pc' = [pc EXCEPT ![t] = "raised"]
             /\ UNCHANGED rt
        ELSE /\ rt' = [rt EXCEPT ![t].intent = m, ![t].classified = TRUE,
                                 ![t].events = Append(@, "classify")]
             /\ pc' = [pc EXCEPT ![t] = "r_dispatch"]
    /\ UNCHANGED <<clock, max_retries, is_healthy, last_health_check, stack, hc, cc,
                   vis, vision_state, cache_writer, memory_file, client, appends,
                   vision_writer, px>>

(* lines 188-194: a vision intent goes to handle_vision_intent *)
RDispatchVision(t) ==
    /\ pc[t] = "r_dispatch"
    /\ rt[t].intent # None
    /\ IsVisionIntent(rt[t].intent)
    /\ EnterVision(t, rt[t].intent, rt[t].prompt)
    /\ stack' = [stack EXCEPT ![t] = <<"r_after_vision">> \o @]
    /\ rt' = [rt EXCEPT ![t].events = Append(@, "vision")]
    /\ UNCHANGED <<clock, max_retries, is_healthy, last_health_check, hc, cc,
                   cache_writer, memory_file, client, appends, px>>

(* lines 196-199: "error" in vision_result, or its result *)
RAfterVision(t) ==
    /\ pc[t] = "r_after_vision"
    /\ rt' = [rt EXCEPT ![t].response_text =
                  IF vis[t].ret = "success" THEN cc[t].ret
                                            ELSE VisionErrorText(vis[t].ret),
                        ![t].events = Append(@, "result")]
    /\ pc' = [pc EXCEPT ![t] = "r_respond"]
    /\ UNCHANGED <<clock, max_retries, is_healthy, last_health_check, stack, hc, cc,
                   vis, vision_state, cache_writer, memory_file, client, appends,
                   vision_writer, px>>

(* lines 201-204: any other intent goes to execute_command *)
RDispatchCommand(t) ==
    /\ pc[t] = "r_dispatch"
    /\ rt[t].intent # None
    /\ ~IsVisionIntent(rt[t].intent)
    /\ \E o \in CommandOutcomes :
        IF o = "raise"
        THEN /\ pc' = [pc EXCEPT ![t] = "raised"]
             /\ rt' = [rt EXCEPT ![t].events = Append(@, "command")]
        ELSE /\ rt' = [rt EXCEPT ![t].response_text = o,
                                 ![t].events = @ \o <<"command", "result">>]
             /\ pc' = [pc EXCEPT ![t] = "r_respond"]
    /\ UNCHANGED <<clock, max_retries, is_healthy, last_health_check, stack, hc, cc,
                   vis, vision_state, cache_writer, memory_file, client, appends,
                   vision_writer, px>>

(* lines 206-210: no intent, the route asks health_check() *)
RDispatchLlm(t) ==
    /\ pc[t] = "r_dispatch"
    /\ rt[t].intent = None
    /\ CallHealthCheck(t, FALSE, "r_after_hc")
    /\ rt' = [rt EXCEPT ![t].events = Append(@, "llm")]
    /\ UNCHANGED <<clock, max_retries, is_healthy, last_health_check, cc, vis,
                   vision_state, cache_writer, memory_file, client, appends,
                   vision_writer, px>>

(* lines 210-228: unhealthy gives the apology; otherwise chat_completion,  *)
(* which starts with its own health_check() (client line 146)              *)
RAfterHealth(t) ==
    /\ pc[t] = "r_after_hc"
    /\ IF RouterUnhealthy(hc[t].ret[1])
       THEN /\ rt' = [rt EXCEPT ![t].lm_healthy = hc[t].ret,
                                ![t].response_text = Apology,
                                ![t].events = Append(@, "result")]
            /\ pc' = [pc EXCEPT ![t] = "r_respond"]
            /\ UNCHANGED <<stack, hc, cc>>
       ELSE /\ rt' = [rt EXCEPT ![t].lm_healthy = hc[t].ret]
            /\ cc' = [cc EXCEPT ![t] = [CcIdle EXCEPT !.kind = "chat"]]
            /\ pc' = [pc EXCEPT ![t] = "hc_entry"]
            /\ stack' = [stack EXCEPT ![t] = <<"cc_after_hc", "r_after_cc">> \o @]
            /\ hc' = [hc EXCEPT ![t] = HcIdle]
    /\ UNCHANGED <<clock, max_retries, is_healthy, last_health_check, vis,
                   vision_state, cache_writer, memory_file, client, appends,
                   vision_writer, px>>

(* lines 227-230: if llm_response *)
RAfterCompletion(t) ==
    /\ pc[t] = "r_after_cc"
    /\ rt' = [rt EXCEPT ![t].response_text =
                  IF TruthyText(cc[t].ret) THEN cc[t].ret ELSE Trouble,
                        ![t].events = Append(@, "result")]
    /\ pc' = [pc EXCEPT ![t] = "r_respond"]
    /\ UNCHANGED <<clock, max_retries, is_healthy, last_health_check, stack, hc, cc,
                   vis, vision_state, cache_writer, memory_file, client, appends,
                   vision_writer, px>>

(* lines 233-244: save_context is called with the entry *)
RSave(t) ==
    /\ pc[t] = "r_respond"
    /\ CallSaveContext(t, EntryOf(rt[t].linked_user, rt[t].prompt,
                                  rt[t].response_text, rt[t].intent), "r_saved")
    /\ UNCHANGED <<clock, max_retries, is_healthy, last_health_check, hc, cc,
                   vis, vision_state, cache_writer, memory_file, client, appends,
                   vision_writer, px>>

(* lines 250-269: the response is returned with status 200 *)
RReturn(t) ==
    /\ pc[t] = "r_saved"
    /\ rt' = [rt EXCEPT ![t].status = "200",
                        ![t].returned = rt[t].response_text,
                        ![t].events = Append(@, "return")]
    /\ pc' = [pc EXCEPT ![t] = "r_done"]
    /\ UNCHANGED <<clock, max_retries, is_healthy, last_health_check, stack, hc, cc,
                   vis, vision_state, cache_writer, memory_file, client, appends,
                   vision_writer, px>>

(* lines 271-279: an exception raised inside the try is answered with      *)
(* status 500 and its text, and nothing is saved                           *)
RExcept(t) ==
    /\ pc[t] = "raised"
    /\ rt[t].route = "chat"
    /\ IF RouterCatches("Exception")
       THEN /\ rt' = [rt EXCEPT ![t].status = "500",
                                ![t].returned = "server_error",
                                ![t].events = Append(@, "return")]
            /\ pc' = [pc EXCEPT ![t] = "r_done"]
       ELSE /\ pc' = [pc EXCEPT ![t] = "escaped"]
            /\ UNCHANGED rt
    /\ stack' = [stack EXCEPT ![t] = <<>>]
    /\ UNCHANGED <<clock, max_retries, is_healthy, last_health_check, hc, cc,
                   vis, vision_state, cache_writer, memory_file, client, appends,
                   vision_writer, px>>

(* lines 139-142: the health route asks health_check() *)
StartHealth(t) ==
    /\ pc[t] = "idle"
    /\ rt' = [rt EXCEPT ![t] = [RtIdle EXCEPT !.route = "health"]]
    /\ CallHealthCheck(t, FALSE, "h_after_hc")
    /\ UNCHANGED <<clock, max_retries, is_healthy, last_health_check, cc, vis,
                   vision_state, cache_writer, memory_file, client, appends,
                   vision_writer, px>>

(* line 143: get_loaded_models() if lm_healthy else [] *)
HAfterHealth(t) ==
    /\ pc[t] = "h_after_hc"
    /\ IF FetchesModels(hc[t].ret[1])
       THEN /\ rt' = [rt EXCEPT ![t].lm_healthy = hc[t].ret]
            /\ pc' = [pc EXCEPT ![t] = "h_models"]
       ELSE /\ rt' = [rt EXCEPT ![t].lm_healthy = hc[t].ret,
                                ![t].loaded_models = "empty_list"]
            /\ pc' = [pc EXCEPT ![t] = "h_report"]
    /\ UNCHANGED <<clock, max_retries, is_healthy, last_health_check, stack, hc, cc,
                   vis, vision_state, cache_writer, memory_file, client, appends,
                   vision_writer, px>>

(* get_loaded_models (client lines 92-107): one GET of the model listing,  *)
(* answered with the list of ids, or None on any exception                 *)
HGetModels(t) ==
    /\ pc[t] = "h_models"
    /\ \E o \in GetOutcomes :
        rt' = [rt EXCEPT ![t].models_gets = @ + 1,
                         ![t].loaded_models = IF o = "200" THEN "models" ELSE None]
    /\ pc' = [pc EXCEPT ![t] = "h_report"]
    /\ UNCHANGED <<clock, max_retries, is_healthy, last_health_check, stack, hc, cc,
                   vis, vision_state, cache_writer, memory_file, client, appends,
                   vision_writer, px>>

(* lines 145-152: the report is returned *)
HReport(t) ==
    /\ pc[t] = "h_report"
    /\ rt' = [rt EXCEPT ![t].connected = rt[t].lm_healthy,
                        ![t].status = "200",
                        ![t].returned = "health_report"]
    /\ pc' = [pc EXCEPT ![t] = "h_done"]
    /\ UNCHANGED <<clock, max_retries, is_healthy, last_health_check, stack, hc, cc,
                   vis, vision_state, cache_writer, memory_file, client, appends,
                   vision_writer, px>>

----------------------------------------------------------------------------
(* Callers of health_check alone: is_connected() and the "/" route call    *)
(* health_check(); the boot sequence and the client self-test call         *)
(* health_check(force=True)                                                *)

StartHealthCheck(t) ==
    /\ pc[t] = "idle"
    /\ \E force \in BOOLEAN : CallHealthCheck(t, force, "top_done")
    /\ UNCHANGED <<clock, max_retries, is_healthy, last_health_check, cc, vis,
                   vision_state, cache_writer, rt, memory_file, client, appends,
                   vision_writer, px>>

(* the thread's request is over: its locals are dropped.  An exception    *)
(* raised under the chat route goes to its except clause first             *)
Finish(t) ==
    /\ \/ pc[t] \in {"top_done", "r_done", "h_done", "escaped", "p_done"}
       \/ pc[t] = "raised" /\ rt[t].route # "chat"
    /\ pc' = [pc EXCEPT ![t] = "idle"]
    /\ stack' = [stack EXCEPT ![t] = <<>>]
    /\ hc' = [hc EXCEPT ![t] = HcIdle]
    /\ cc' = [cc EXCEPT ![t] = CcIdle]
    /\ vis' = [vis EXCEPT ![t] = VisIdle]
    /\ rt' = [rt EXCEPT ![t] = RtIdle]
    /\ px' = [px EXCEPT ![t] = PxIdle]
    /\ UNCHANGED <<clock, max_retries, is_healthy, last_health_check, vision_state,
                   cache_writer, memory_file, client, appends, vision_writer>>

----------------------------------------------------------------------------
(* The proxy of main.py: /chat (lines 50-77) and /models (lines 79-88)     *)

(* line 15: the shared secret *)
API_KEY == "home-link-secret"

(* the x-api-key header of a request: absent, empty, a wrong key, the key  *)
(* in another case, the key                                                *)
Keys == {<<>>, <<"">>, <<"wrong-key">>, <<"HOME-LINK-SECRET">>, <<API_KEY>>}

ProxyRoutes == {"chat", "models"}

(* faulty variant: a request without the header passes *)
KeyRejected_MissingPasses(x_api_key) ==
    x_api_key # <<>> /\ x_api_key[1] # API_KEY

(* line 42: if not x_api_key or x_api_key != API_KEY *)
KeyRejected(x_api_key) ==
    x_api_key = <<>> \/ x_api_key[1] = "" \/ x_api_key[1] # API_KEY

(* outcomes of the request the proxy sends to the backend: an answer with  *)
(* status 200, an answer with another status, an exception of httpx        *)
ForwardOutcomes == {"200", "error_status", "exception"}

(* a request arrives at /chat or /models; /models has no body *)
ProxyReceive(t) ==
    /\ pc[t] = "idle"
    /\ \E r \in ProxyRoutes, k \in Keys, v \in BOOLEAN :
        /\ (r = "models" => v)
        /\ px' = [px EXCEPT ![t] = [PxIdle EXCEPT !.route = r, !.key = k,
                                                  !.body_valid = v]]
    /\ pc' = [pc EXCEPT ![t] = "p_bind"]
    /\ UNCHANGED <<clock, max_retries, is_healthy, last_health_check, stack, hc, cc,
                   vis, vision_state, cache_writer, rt, memory_file, client, appends,
                   vision_writer>>

(* lines 51, 80: the parameters of the route function are bound before it  *)
(* is called; a body that does not fit ChatRequest (lines 30-39) is        *)
(* answered 422 and the function is not called                             *)
ProxyBind(t) ==
    /\ pc[t] = "p_bind"
    /\ IF px[t].route = "chat" /\ ~px[t].body_valid
       THEN /\ px' = [px EXCEPT ![t].status = "422"]
            /\ pc' = [pc EXCEPT ![t] = "p_done"]
       ELSE /\ px' = px
            /\ pc' = [pc EXCEPT ![t] = "p_verify"]
    /\ UNCHANGED <<clock, max_retries, is_healthy, last_health_check, stack, hc, cc,
                   vis, vision_state, cache_writer, rt, memory_file, client, appends,
                   vision_writer>>

(* lines 41-44, called at lines 52 and 81: HTTPException(403) *)
ProxyVerify(t) ==
    /\ pc[t] = "p_verify"
    /\ IF KeyRejected(px[t].key)
       THEN /\ px' = [px EXCEPT ![t].status = "403"]
            /\ pc' = [pc EXCEPT ![t] = "p_done"]
       ELSE /\ px' = px
            /\ pc' = [pc EXCEPT ![t] = "p_forward"]
    /\ UNCHANGED <<clock, max_retries, is_healthy, last_health_check, stack, hc, cc,
                   vis, vision_state, cache_writer, rt, memory_file, client, appends,
                   vision_writer>>

(* lines 55-77: /chat answers 200 with a stream, whose generator sends the *)
(* POST and streams the answer or the error; lines 82-88: /models sends    *)
(* the GET and answers with its JSON, or 503 on any exception              *)
ProxyForward(t) ==
    /\ pc[t] = "p_forward"
    /\ \E o \in ForwardOutcomes :
        px' = [px EXCEPT ![t].sent = @ + 1,
                         ![t].status = IF px[t].route = "models" /\ o = "exception"
                                       THEN "503" ELSE "200"]
    /\ pc' = [pc EXCEPT ![t] = "p_done"]
    /\ UNCHANGED <<clock, max_retries, is_healthy, last_health_check, stack, hc, cc,
                   vis, vision_state, cache_writer, rt, memory_file, client, appends,
                   vision_writer>>

----------------------------------------------------------------------------

(* The client shared by the request threads.  Completion calls touch the  *)
(* shared HealthState only through health_check, so one thread makes       *)
(* completion calls and every thread makes health checks                   *)
CompletionThreads == {"t1"}

Next ==
    \/ Tick
    \/ \E t \in Threads :
        \/ StartHealthCheck(t)
        \/ HcEntry(t)
        \/ HcFreshTest(t)
        \/ HcCached(t)
        \/ HcGet(t)
        \/ HcWriteHealthy(t)
        \/ HcWriteChecked(t)
        \/ HcReadBack(t)
        \/ HcReturn(t)
        \/ Finish(t)
    \/ \E t \in CompletionThreads :
        \/ StartCompletion(t)
        \/ CcAfterHealth(t)
        \/ CcAttempt(t)
        \/ CcSleep(t)
        \/ VcPost(t)
        \/ CcReturn(t)

Spec == Init /\ [][Next]_vars

(* The client used by one thread: its calls are made one after another *)
SeqThreads == {"t1"}

NextSeq ==
    \/ Tick
    \/ \E t \in SeqThreads :
        \/ StartHealthCheck(t)
        \/ HcEntry(t)
        \/ HcFreshTest(t)
        \/ HcCached(t)
        \/ HcGet(t)
        \/ HcWriteHealthy(t)
        \/ HcWriteChecked(t)
        \/ HcReadBack(t)
        \/ HcReturn(t)
        \/ StartCompletion(t)
        \/ CcAfterHealth(t)
        \/ CcAttempt(t)
        \/ CcSleep(t)
        \/ VcPost(t)
        \/ CcReturn(t)
        \/ Finish(t)

SpecSeq == Init /\ [][NextSeq]_vars

(* The vision pipeline: every thread serves vision requests.  The clock    *)
(* stands still and the retry budget is one attempt                        *)
InitVision ==
    /\ Init
    /\ max_retries = 1

NextVision ==
    \E t \in Threads :
        \/ StartVision(t)
        \/ CapOpen(t)
        \/ CapWarmUp(t)
        \/ CapRead(t)
        \/ CapRelease(t)
        \/ VAfterCapture(t)
        \/ VGetClient(t)
        \/ VAfterHealth(t)
        \/ VAfterCompletion(t)
        \/ VReturn(t)
        \/ HcEntry(t)
        \/ HcFreshTest(t)
        \/ HcCached(t)
        \/ HcGet(t)
        \/ HcWriteHealthy(t)
        \/ HcWriteChecked(t)
        \/ HcReadBack(t)
        \/ HcReturn(t)
        \/ CcAfterHealth(t)
        \/ VcPost(t)
        \/ CcReturn(t)
        \/ Finish(t)

SpecVision == InitVision /\ [][NextVision]_vars

(* handle_vision_intent called with any vision intent and any text *)
StartVisionAny(t) ==
    /\ pc[t] = "idle"
    /\ \E i \in VISION_INTENTS, p \in UserTexts : EnterVision(t, i, p)
    /\ UNCHANGED <<clock, max_retries, is_healthy, last_health_check, stack, hc, cc,
                   cache_writer, rt, memory_file, client, appends, px>>

(* The vision router used on its own by one thread, as in its self-test    *)
(* (vision_router_fixed.py lines 218-243) and quick_vision_check: no       *)
(* client has been built when the first call is made                       *)
InitVisionSeq ==
    /\ InitShared
    /\ max_retries = 1
    /\ client = None

NextVisionSeq ==
    \E t \in SeqThreads :
        \/ StartVisionAny(t)
        \/ CapOpen(t)
        \/ CapWarmUp(t)
        \/ CapRead(t)
        \/ CapRelease(t)
        \/ VAfterCapture(t)
        \/ VGetClient(t)
        \/ VAfterHealth(t)
        \/ VAfterCompletion(t)
        \/ VReturn(t)
        \/ HcEntry(t)
        \/ HcFreshTest(t)
        \/ HcCached(t)
        \/ HcGet(t)
        \/ HcWriteHealthy(t)
        \/ HcWriteChecked(t)
        \/ HcReadBack(t)
        \/ HcReturn(t)
        \/ CcAfterHealth(t)
        \/ VcPost(t)
        \/ CcReturn(t)
        \/ Finish(t)

SpecVisionSeq == InitVisionSeq /\ [][NextVisionSeq]_vars

(* The history file written by one thread, call after call *)
NextHistory ==
    \E t \in SeqThreads :
        \/ StartSave(t)
        \/ ScLoad(t)
        \/ ScOpen(t)
        \/ ScDump(t)
        \/ Finish(t)

SpecHistory == Init /\ [][NextHistory]_vars

(* The server's routes served by one thread, request after request *)
NextRouter ==
    \/ Tick
    \/ \E t \in SeqThreads :
        \/ ReceiveRequest(t)
        \/ StartRequest(t)
        \/ RClassify(t)
        \/ RDispatchVision(t)
        \/ RAfterVision(t)
        \/ RDispatchCommand(t)
        \/ RDispatchLlm(t)
        \/ RAfterHealth(t)
        \/ RAfterCompletion(t)
        \/ RSave(t)
        \/ RReturn(t)
        \/ RExcept(t)
        \/ StartHealth(t)
        \/ HAfterHealth(t)
        \/ HGetModels(t)
        \/ HReport(t)
        \/ ScLoad(t)
        \/ ScOpen(t)
        \/ ScDump(t)
        \/ CapOpen(t)
        \/ CapWarmUp(t)
        \/ CapRead(t)
        \/ CapRelease(t)
        \/ VAfterCapture(t)
        \/ VGetClient(t)
        \/ VAfterHealth(t)
        \/ VAfterCompletion(t)
        \/ VReturn(t)
        \/ HcEntry(t)
        \/ HcFreshTest(t)
        \/ HcCached(t)
        \/ HcGet(t)
        \/ HcWriteHealthy(t)
        \/ HcWriteChecked(t)
        \/ HcReadBack(t)
        \/ HcReturn(t)
        \/ CcAfterHealth(t)
        \/ CcAttempt(t)
        \/ CcSleep(t)
        \/ VcPost(t)
        \/ CcReturn(t)
        \/ Finish(t)

SpecRouter == Init /\ [][NextRouter]_vars

(* The history file written by the threads of concurrent requests *)
NextHistoryPair ==
    \E t \in Threads :
        \/ StartSavePair(t)
        \/ ScLoad(t)
        \/ ScOpen(t)
        \/ ScDump(t)
        \/ Finish(t)

SpecHistoryPair == Init /\ [][NextHistoryPair]_vars

(* a step of the request thread t is serving: every statement of the       *)
(* routes returns control, every network, camera, matcher, command and     *)
(* file call resolves                                                      *)
Serve(t) ==
    \/ StartRequest(t)
    \/ RClassify(t)
    \/ RDispatchVision(t)
    \/ RAfterVision(t)
    \/ RDispatchCommand(t)
    \/ RDispatchLlm(t)
    \/ RAfterHealth(t)
    \/ RAfterCompletion(t)
    \/ RSave(t)
    \/ RReturn(t)
    \/ RExcept(t)
    \/ HAfterHealth(t)
    \/ HGetModels(t)
    \/ HReport(t)
    \/ ScLoad(t)
    \/ ScOpen(t)
    \/ ScDump(t)
    \/ CapOpen(t)
    \/ CapWarmUp(t)
    \/ CapRead(t)
    \/ CapRelease(t)
    \/ VAfterCapture(t)
    \/ VGetClient(t)
    \/ VAfterHealth(t)
    \/ VAfterCompletion(t)
    \/ VReturn(t)
    \/ HcEntry(t)
    \/ HcFreshTest(t)
    \/ HcCached(t)
    \/ HcGet(t)
    \/ HcWriteHealthy(t)
    \/ HcWriteChecked(t)
    \/ HcReadBack(t)
    \/ HcReturn(t)
    \/ CcAfterHealth(t)
    \/ CcAttempt(t)
    \/ CcSleep(t)
    \/ VcPost(t)
    \/ CcReturn(t)

(* The routes served by a thread that is never stopped for ever.  Every    *)
(* step of Serve moves the thread's position or the loop of its completion *)
(* call                                                                    *)
SpecRouterLive ==
    /\ Init
    /\ [][NextRouter]_vars
    /\ \A t \in SeqThreads : WF_<<pc, cc>>(Serve(t))

(* A chat request served by one thread while the other thread makes       *)
(* health checks (is_connected(), the "/" route); the clock stands still   *)
HealthThreads == Threads \ SeqThreads

NextRouterPair ==
    \/ \E t \in SeqThreads :
        \/ ReceiveRequest(t)
        \/ StartRequest(t)
        \/ RClassify(t)
        \/ RDispatchVision(t)
        \/ RAfterVision(t)
        \/ RDispatchCommand(t)
        \/ RDispatchLlm(t)
        \/ RAfterHealth(t)
        \/ RAfterCompletion(t)
        \/ RSave(t)
        \/ RReturn(t)
        \/ RExcept(t)
        \/ ScLoad(t)
        \/ ScOpen(t)
        \/ ScDump(t)
        \/ CapOpen(t)
        \/ CapWarmUp(t)
        \/ CapRead(t)
        \/ CapRelease(t)
        \/ VAfterCapture(t)
        \/ VGetClient(t)
        \/ VAfterHealth(t)
        \/ VAfterCompletion(t)
        \/ VReturn(t)
        \/ CcAfterHealth(t)
        \/ CcAttempt(t)
        \/ CcSleep(t)
        \/ VcPost(t)
        \/ CcReturn(t)
    \/ \E t \in HealthThreads :
        \/ StartHealthCheck(t)
    \/ \E t \in Threads :
        \/ HcEntry(t)
        \/ HcFreshTest(t)
        \/ HcCached(t)
        \/ HcGet(t)
        \/ HcWriteHealthy(t)
        \/ HcWriteChecked(t)
        \/ HcReadBack(t)
        \/ HcReturn(t)
        \/ Finish(t)

SpecRouterPair == Init /\ [][NextRouterPair]_vars

(* The proxy: its requests are served side by side *)
NextProxy ==
    \E t \in Threads :
        \/ ProxyReceive(t)
        \/ ProxyBind(t)
        \/ ProxyVerify(t)
        \/ ProxyForward(t)
        \/ Finish(t)

SpecProxy == Init /\ [][NextProxy]_vars

----------------------------------------------------------------------------
(* Properties *)

(* C1: vision exclusivity - in no reachable state do two concurrently      *)
(* running handle_vision_intent calls both hold the camera (device opened  *)
(* in _capture_frame and not yet released)                                 *)
C1_VisionExclusivity ==
    \A a, b \in Threads : a # b => ~(HoldsCamera(a) /\ HoldsCamera(b))

(* every network call the completion call of t has made so far was refused *)
AllRefused(t) ==
    /\ hc[t].status \in {None, "conn"}
    /\ \A i \in 1..Len(cc[t].log) : cc[t].log[i] = "conn"

(* the outcome the retry bound promises: max_attempts POSTs, a wait        *)
(* between consecutive ones, and a failure returned                        *)
RetryBudgetSpent(t) ==
    /\ Len(cc[t].log) = max_retries
    /\ cc[t].sleeps = max_retries - 1
    /\ cc[t].ret = None

(* C2 as stated: given a backend that refuses every connection, a call to  *)
(* chat_completion makes exactly max_attempts POST attempts spaced by      *)
(* retry_delay and then returns a failure                                  *)
C2_RetryBoundAnyHealth ==
    \A t \in Threads :
        (pc[t] = "cc_done" /\ cc[t].kind = "chat" /\ AllRefused(t))
            => RetryBudgetSpent(t)

(* C2 amended: when the call's initial health check reports healthy and    *)
(* every POST is refused, chat_completion makes exactly max_attempts POST  *)
(* attempts with a wait between consecutive ones and then returns None     *)
C2_RetryBound ==
    \A t \in Threads :
        (/\ pc[t] = "cc_done"
         /\ cc[t].kind = "chat"
         /\ hc[t].ret = <<TRUE>>
         /\ \A i \in 1..Len(cc[t].log) : cc[t].log[i] = "conn")
            => RetryBudgetSpent(t)

C2_Witness ==
    \E t \in Threads :
        /\ pc[t] = "cc_done"
        /\ cc[t].kind = "chat"
        /\ hc[t].ret = <<TRUE>>
        /\ max_retries >= 2
        /\ cc[t].log = [i \in 1..max_retries |-> "conn"]

(* C3: when the first POST of a chat_completion call is answered with an   *)
(* HTTP error status the call makes exactly one attempt, sleeps zero times *)
(* and returns a failure, whatever max_attempts >= 1 is                    *)
C3_NoRetryOnHttpError ==
    \A t \in Threads :
        (cc[t].kind = "chat" /\ cc[t].log # <<>> /\ cc[t].log[1] = "http_error")
            => /\ pc[t] = "cc_done"
               /\ Len(cc[t].log) = 1
               /\ cc[t].sleeps = 0
               /\ cc[t].ret = None

C3_Witness ==
    \E t \in Threads :
        /\ pc[t] = "cc_done"
        /\ cc[t].kind = "chat"
        /\ cc[t].log = <<"http_error">>
        /\ max_retries >= 2

(* C4: when the health check at the start of a completion call reports     *)
(* unhealthy the call fails at once, with no POST and no retry wait, for   *)
(* the chat and for the vision kind                                        *)
C4_UnhealthyFailsFast ==
    \A t \in Threads :
        (pc[t] \in {"cc_loop", "cc_sleep", "vc_post", "cc_done"} /\ hc[t].ret = <<FALSE>>)
            => /\ pc[t] = "cc_done"
               /\ cc[t].kind \in {"chat", "vision"}
               /\ cc[t].log = <<>>
               /\ cc[t].sleeps = 0
               /\ cc[t].ret = None

C4_Witness ==
    \E t \in Threads :
        /\ pc[t] = "cc_done"
        /\ cc[t].kind = "vision"
        /\ hc[t].ret = <<FALSE>>
        /\ cc[t].log = <<>>

(* thread t takes a step of health_check *)
HcStep(t) == pc[t] \in {"hc_entry", "hc_fresh", "hc_cached", "hc_get", "hc_w1",
                        "hc_w2", "hc_read"} /\ pc'[t] # pc[t]

(* the cache as health_check(force=False) of t finds it: present and less  *)
(* than 30 seconds older than the call's now                               *)
FindsFreshCache(t) ==
    /\ ~hc[t].force
    /\ last_health_check # <<>>
    /\ hc[t].now - last_health_check[1] < FreshWindow

(* C5: health cache hit - a check(force=false) that finds checked_at       *)
(* present and less than 30 seconds old returns the cached is_healthy,     *)
(* issues no GET and leaves is_healthy and checked_at unchanged            *)
C5_CacheHit ==
    [][\A t \in Threads :
        /\ (HcStep(t) /\ pc[t] = "hc_entry" /\ ~hc[t].force /\ last_health_check # <<>>)
              => /\ pc'[t] = "hc_fresh"
                 /\ UNCHANGED <<is_healthy, last_health_check>>
        /\ (HcStep(t) /\ pc[t] = "hc_fresh" /\ FindsFreshCache(t))
              => /\ pc'[t] = "hc_cached"
                 /\ UNCHANGED <<is_healthy, last_health_check>>
        /\ (HcStep(t) /\ pc[t] = "hc_cached")
              => /\ pc'[t] = "hc_done"
                 /\ hc'[t].ret = <<is_healthy>>
                 /\ hc'[t].gets = 0
                 /\ UNCHANGED <<is_healthy, last_health_check>>
      ]_vars

C5_Witness ==
    \E t \in Threads :
        /\ pc[t] = "hc_done"
        /\ FindsFreshCache(t)
        /\ hc[t].now - last_health_check[1] = TickStep
        /\ hc[t].gets = 0
        /\ hc[t].ret = <<TRUE>>

(* C6: any two check(force=false) calls made within one freshness window,  *)
(* also by two concurrently served requests, issue at most one GET in total *)
C6_OneProbePerWindow ==
    \A t, u \in Threads :
        (/\ t # u
         /\ pc[t] \in {"hc_fresh", "hc_cached", "hc_get", "hc_w1", "hc_w2", "hc_read", "hc_done"}
         /\ pc[u] \in {"hc_fresh", "hc_cached", "hc_get", "hc_w1", "hc_w2", "hc_read", "hc_done"}
         /\ ~hc[t].force /\ ~hc[u].force
         /\ hc[t].now - hc[u].now < FreshWindow
         /\ hc[u].now - hc[t].now < FreshWindow)
            => hc[t].gets + hc[u].gets <= 1

(* C7: check(force=true) issues exactly one GET whatever the cached state  *)
(* is, and stores the outcome of that probe in is_healthy and its own now  *)
(* in checked_at                                                           *)
C7_ForcedProbe ==
    [][\A t \in Threads : hc[t].force =>
        /\ (HcStep(t) /\ pc[t] = "hc_entry") => pc'[t] = "hc_get"
        /\ (HcStep(t) /\ pc[t] = "hc_get") => hc'[t].gets = 1
        /\ (HcStep(t) /\ pc[t] = "hc_w1") => is_healthy' = (hc[t].status = "200")
        /\ (HcStep(t) /\ pc[t] = "hc_w2") => last_health_check' = <<hc[t].now>>
        /\ (pc'[t] = "hc_done") => hc'[t].gets = 1
      ]_vars

C7_Witness ==
    \E t \in Threads :
        /\ pc[t] = "hc_done"
        /\ hc[t].force
        /\ hc[t].gets = 1
        /\ hc[t].now > 1
        /\ hc[t].status = "200"
        /\ cache_writer = [is_healthy |-> t, last_health_check |-> t]

(* C8: after a check that issued a probe is_healthy is true exactly when   *)
(* the probe returned 200, checked_at is the check's now, and the boolean  *)
(* returned equals the stored is_healthy                                   *)
C8_ProbeOutcomeStored ==
    \A t \in Threads :
        (pc[t] = "hc_done" /\ hc[t].gets = 1)
            => /\ is_healthy = (hc[t].status = "200")
               /\ last_health_check = <<hc[t].now>>
               /\ hc[t].ret = <<is_healthy>>

(* C9: check never raises - for every outcome of the probe it returns a    *)
(* boolean and no caller is left with an exception from a health check     *)
C9_NeverRaises ==
    \A t \in Threads :
        /\ pc[t] # "raised"
        /\ pc[t] = "hc_done" => hc[t].ret \in {<<TRUE>>, <<FALSE>>}

C9_Witness ==
    \E t \in Threads :
        /\ pc[t] = "hc_done"
        /\ hc[t].status = "error"
        /\ hc[t].ret = <<FALSE>>

(* C10: HealthState is updated atomically - in no reachable state was      *)
(* is_healthy written by one probe while checked_at holds the value        *)
(* written by another probe                                                *)
C10_AtomicHealthState ==
    (cache_writer.is_healthy # None /\ cache_writer.last_health_check # None)
        => cache_writer.is_healthy = cache_writer.last_health_check

(* C18: capture failure - when the frame read fails or the capture raises, *)
(* the step that follows the capture publishes active = FALSE with the     *)
(* capture-failed text as result and ends the call with the camera_failed  *)
(* error, and the call makes no health probe and no completion call        *)
C18_CaptureFailure ==
    /\ [](\A t \in Threads :
            vis[t].ret = "camera_failed" => (cc[t] = CcIdle /\ hc[t] = HcIdle))
    /\ [][\A t \in Threads :
            (pc[t] = "v_captured" /\ vis[t].frame # "frame" /\ pc'[t] # pc[t])
                => /\ pc'[t] = "v_done"
                   /\ vis'[t].ret = "camera_failed"
                   /\ vision_state'.active = FALSE
                   /\ vision_state'.result = "Camera capture failed"]_vars

C18_Witness ==
    \E t \in Threads :
        /\ pc[t] = "v_done"
        /\ vis[t].frame = "no_frame"
        /\ vis[t].ret = "camera_failed"

(* C19: VisionState lifecycle - an invocation that has just begun has      *)
(* published active = TRUE with its intent, and an invocation that has     *)
(* ended, by returning or by an exception, has left active = FALSE with a  *)
(* result (one invocation at a time)                                       *)
C19_VisionStateLifecycle ==
    \A t \in SeqThreads :
        /\ pc[t] = "cap_open"
                => (vision_state.active /\ vision_state.intent = vis[t].intent)
        /\ (vis[t].intent # None /\ pc[t] \in {"v_done", "raised"})
                => (~vision_state.active /\ vision_state.result # None)

(* C20: instruction selection - the instruction chosen for the vision      *)
(* model, and sent with the POST, is the caller's text when that text has  *)
(* more than 10 characters and the default of the intent's row otherwise   *)
C20_InstructionSelection ==
    \A t \in Threads :
        vis[t].vision_prompt # <<>>
            => vis[t].vision_prompt =
                   IF Len(vis[t].prompt) > PromptMinLen
                   THEN vis[t].prompt
                   ELSE prompts[vis[t].intent]

C20_Witness ==
    \E t \in Threads :
        /\ pc[t] = "cc_done"
        /\ cc[t].log # <<>>
        /\ Len(vis[t].prompt) = PromptMinLen
        /\ vis[t].vision_prompt = prompts[vis[t].intent]

(* the smaller of two numbers *)
Min(a, b) == IF a < b THEN a ELSE b

(* C13: history bound - after any number of appends made one after another *)
(* the file holds at most 100 entries, and they are the most recently      *)
(* appended ones in the order of their appends                             *)
C13_HistoryBound ==
    (\A t \in SeqThreads : pc[t] # "sc_dump")
        => /\ Len(memory_file) = Min(appends, 100)
           /\ \A i \in 1..Len(memory_file) :
                  memory_file[i].n = appends - Len(memory_file) + i

C13_Witness ==
    /\ appends = 150
    /\ Len(memory_file) = 100
    /\ memory_file[1].n = 51
    /\ memory_file[100].n = 150

(* C14: atomic append - once the concurrent save_context calls have all    *)
(* returned and fewer than 100 were made, every entry is in the file       *)
C14_NoLostAppend ==
    (Saving = {} /\ appends <= HistoryMax)
        => /\ Len(memory_file) = appends
           /\ \A k \in 1..appends : \E i \in 1..Len(memory_file) :
                  memory_file[i].n = k

(* a chat request that has been answered *)
Answered(t) == pc[t] = "r_done" /\ rt[t].route = "chat"

(* C11: finalization exactly once - every request that reached            *)
(* classification has, when it is answered, appended exactly one entry to  *)
(* the history file, whichever handler served it and also when the handler *)
(* failed or raised                                                        *)
C11_FinalizedOnce ==
    \A t \in SeqThreads :
        (Answered(t) /\ rt[t].classified) => rt[t].appended = 1

(* C12: the entry appended for a request holds the response text returned  *)
(* to the caller and the intent the classification gave, None when nothing *)
(* matched                                                                 *)
C12_EntryMatchesResponse ==
    \A t \in SeqThreads :
        (Answered(t) /\ rt[t].appended > 0)
            => /\ Len(memory_file) > 0
               /\ memory_file[Len(memory_file)].response = rt[t].returned
               /\ memory_file[Len(memory_file)].intent = rt[t].intent
               /\ memory_file[Len(memory_file)].prompt = rt[t].prompt

C12_Witness ==
    \E t \in SeqThreads :
        /\ Answered(t)
        /\ rt[t].appended = 1
        /\ rt[t].intent \in LocalIntents
        /\ rt[t].returned = "done"

(* C15: unhealthy backend - when no intent matched and the route's health  *)
(* check answered unhealthy, the response text of the request is the fixed *)
(* apology, it is the text returned with the 200 answer, and no completion *)
(* call and so no POST is made                                             *)
C15_UnhealthyApology ==
    \A t \in SeqThreads :
        (/\ rt[t].route = "chat"
         /\ rt[t].classified
         /\ rt[t].intent = None
         /\ rt[t].lm_healthy = <<FALSE>>)
            => /\ rt[t].response_text = Apology
               /\ cc[t] = CcIdle
               /\ pc[t] \notin {"cc_after_hc", "cc_loop", "cc_sleep", "cc_done"}
               /\ (rt[t].status = "200" => rt[t].returned = Apology)

C15_Witness ==
    \E t \in SeqThreads :
        /\ Answered(t)
        /\ rt[t].intent = None
        /\ rt[t].lm_healthy = <<FALSE>>
        /\ rt[t].returned = Apology

(* C16: healthy backend - when no intent matched, the route's health check *)
(* answered healthy and the backend answered 200 with a well-formed body,  *)
(* the text returned is the content of the body, whatever that string is,  *)
(* and an entry with no intent has been appended                           *)
C16_HealthyReturnsContent ==
    \A t \in SeqThreads :
        (/\ Answered(t)
         /\ rt[t].status = "200"
         /\ rt[t].intent = None
         /\ rt[t].lm_healthy = <<TRUE>>
         /\ cc[t].ret # None)
            => /\ rt[t].returned = cc[t].ret
               /\ rt[t].appended = 1
               /\ memory_file[Len(memory_file)].intent = None

(* C17: no exception crosses the routes - an exception is never left       *)
(* uncaught by the chat route or the health route, and an answered request *)
(* has a status and a body                                                 *)
C17_NoExceptionEscapes ==
    \A t \in SeqThreads :
        /\ pc[t] # "escaped"
        /\ ~(pc[t] = "raised" /\ rt[t].route = "health")
        /\ pc[t] \in {"r_done", "h_done"}
               => /\ rt[t].status \in {"200", "400", "500"}
                  /\ rt[t].returned # None

C17_Witness ==
    \E t \in SeqThreads :
        /\ Answered(t)
        /\ rt[t].status = "500"
        /\ rt[t].returned = "server_error"

(* C22: malformed response - a 200 answer whose body lacks                 *)
(* choices[0].message.content (missing key, empty choices list, body not   *)
(* an object) ends the completion call at that attempt: no exception       *)
(* leaves the call, no further POST is made and None is returned           *)
C22_MalformedFailsOnce ==
    \A t \in Threads :
        /\ pc[t] # "raised"
        /\ \A i \in 1..Len(cc[t].log) :
              cc[t].log[i] \in Malformed
                  => /\ i = Len(cc[t].log)
                     /\ pc[t] = "cc_done"
                     /\ cc[t].ret = None

C22_Witness ==
    \E t \in Threads :
        /\ pc[t] = "cc_done"
        /\ cc[t].kind = "chat"
        /\ max_retries >= 2
        /\ cc[t].log = <<"empty_choices">>
        /\ cc[t].ret = None

(* C24: the retry policy applies to vision completions - a vision          *)
(* completion whose POST was refused or timed out has made max_attempts    *)
(* attempts when it returns                                                *)
C24_VisionRetries ==
    \A t \in Threads :
        (/\ pc[t] = "cc_done"
         /\ cc[t].kind = "vision"
         /\ cc[t].log # <<>>
         /\ cc[t].log[Len(cc[t].log)] \in {"conn", "timeout"})
            => Len(cc[t].log) = max_retries

(* C28: retry waits occur only between attempts - a chat_completion call   *)
(* never has waited more often than it has posted, has not waited before   *)
(* its first POST, and has waited k-1 times when it ends after k POSTs     *)
C28_WaitsBetweenAttempts ==
    \A t \in Threads :
        cc[t].kind = "chat"
            => /\ cc[t].sleeps <= Len(cc[t].log)
               /\ (cc[t].log = <<>> => cc[t].sleeps = 0)
               /\ (pc[t] = "cc_done" /\ cc[t].log # <<>>)
                      => cc[t].sleeps = Len(cc[t].log) - 1

C28_Witness ==
    \E t \in Threads :
        /\ pc[t] = "cc_done"
        /\ cc[t].kind = "chat"
        /\ cc[t].log = <<"conn", "ok">>
        /\ cc[t].sleeps = 1

(* C29: attempt bound and early stop - a chat_completion call never makes  *)
(* more than max_attempts POSTs, and a POST that succeeds is the last one  *)
(* of the call, which returns its content, whatever failed before          *)
C29_AttemptBoundEarlyStop ==
    \A t \in Threads :
        cc[t].kind = "chat"
            => /\ Len(cc[t].log) <= max_retries
               /\ \A i \in 1..Len(cc[t].log) :
                     cc[t].log[i] = "ok"
                         => /\ i = Len(cc[t].log)
                            /\ pc[t] = "cc_done"
                            /\ cc[t].ret \in Contents

C29_Witness ==
    \E t \in Threads :
        /\ pc[t] = "cc_done"
        /\ cc[t].kind = "chat"
        /\ cc[t].log = <<"timeout", "ok">>
        /\ cc[t].ret = "answer"

(* the steps of a completion call after its initial health check *)
InCompletion(t) ==
    pc[t] \in {"cc_after_hc", "cc_loop", "cc_sleep", "vc_post", "cc_done"}

(* C30: a completion call writes HealthState only through its initial      *)
(* health check - no step of the call after that check changes is_healthy  *)
(* or the time of the last check, and a chat_completion that found the     *)
(* backend healthy and had every POST refused leaves is_healthy TRUE       *)
C30_CompletionKeepsHealthState ==
    /\ [][\A t \in SeqThreads :
            InCompletion(t) => /\ is_healthy' = is_healthy
                               /\ last_health_check' = last_health_check]_vars
    /\ [](\A t \in SeqThreads :
            (/\ pc[t] = "cc_done"
             /\ cc[t].kind = "chat"
             /\ hc[t].ret = <<TRUE>>
             /\ cc[t].log = [i \in 1..max_retries |-> "conn"])
                => is_healthy = TRUE)

C30_Witness ==
    \E t \in SeqThreads :
        /\ pc[t] = "cc_done"
        /\ cc[t].kind = "chat"
        /\ cc[t].log = [i \in 1..max_retries |-> "conn"]
        /\ is_healthy = TRUE
        /\ last_health_check # <<>>

(* the handler the classification of a request calls for *)
HandlerFor(intent) ==
    IF intent = None THEN "llm"
    ELSE IF intent \in VISION_INTENTS THEN "vision" ELSE "command"

(* the handlers a request has invoked, in order *)
Invoked(t) ==
    LET IsHandler(e) == e \in {"vision", "command", "llm"}
    IN  SelectSeq(rt[t].events, IsHandler)

(* a classified request that has been dispatched *)
Dispatched(t) ==
    rt[t].route = "chat" /\ rt[t].classified /\ pc[t] # "r_dispatch"

(* C21: dispatch - a request invokes exactly one handler, the one its      *)
(* classification calls for: the vision pipeline for a vision intent, the  *)
(* command executor for any other intent, the health check and then the    *)
(* chat completion when nothing matched; the other handlers stay untouched *)
C21_DispatchByClassification ==
    \A t \in SeqThreads :
        Dispatched(t)
            => /\ Invoked(t) = <<HandlerFor(rt[t].intent)>>
               /\ HandlerFor(rt[t].intent) = "vision"
                      => /\ vis[t].intent = rt[t].intent
                         /\ cc[t].kind # "chat"
                         /\ rt[t].lm_healthy = <<>>
               /\ HandlerFor(rt[t].intent) = "command"
                      => vis[t] = VisIdle /\ cc[t] = CcIdle /\ hc[t] = HcIdle
               /\ HandlerFor(rt[t].intent) = "llm"
                      => /\ vis[t] = VisIdle
                         /\ cc[t].kind # "vision"
                         /\ (cc[t].kind = "chat" => rt[t].lm_healthy = <<TRUE>>)

C21_Witness ==
    \E t \in SeqThreads :
        /\ Answered(t)
        /\ rt[t].intent \in VISION_INTENTS
        /\ vis[t].ret = "success"
        /\ rt[t].status = "200"

(* C23: timeout surfacing - when nothing matched, the backend was healthy  *)
(* and every POST of the forwarded completion timed out, max_attempts      *)
(* attempts were made and the text returned is the fixed apology           *)
C23_TimeoutGivesApology ==
    \A t \in SeqThreads :
        (/\ Answered(t)
         /\ rt[t].status = "200"
         /\ rt[t].intent = None
         /\ cc[t].made # <<>>
         /\ \A i \in 1..Len(cc[t].made) : cc[t].made[i] = "timeout")
            => /\ Len(cc[t].made) = max_retries
               /\ rt[t].returned = Apology

(* C26: the health report - connected is the answer of the non-forced      *)
(* health check the route made; the model listing is fetched once when     *)
(* that answer is healthy, and when it is unhealthy no fetch is made and   *)
(* the report holds the empty list of models                               *)
C26_HealthReport ==
    \A t \in SeqThreads :
        /\ (rt[t].route = "health" /\ pc[t] = "hc_entry") => ~hc[t].force
        /\ pc[t] = "h_done"
              => /\ rt[t].connected = hc[t].ret
                 /\ rt[t].connected = <<TRUE>> => rt[t].models_gets = 1
                 /\ rt[t].connected = <<FALSE>>
                        => /\ rt[t].models_gets = 0
                           /\ rt[t].loaded_models = "empty_list"

C26_Witness ==
    \E t \in SeqThreads :
        /\ pc[t] = "h_done"
        /\ rt[t].connected = <<FALSE>>
        /\ rt[t].loaded_models = "empty_list"
        /\ hc[t].gets = 1

(* s is an initial part of q *)
IsPrefix(s, q) == Len(s) <= Len(q) /\ s = SubSeq(q, 1, Len(s))

(* C27: request state order - what a classified request has done so far   *)
(* is always an initial part of: classify, dispatch to its handler, result *)
(* of the handler, history append, response returned; so no append comes   *)
(* before the handler's result and no response before the append           *)
C27_RequestOrder ==
    \A t \in SeqThreads :
        (rt[t].route = "chat" /\ rt[t].classified)
            => IsPrefix(rt[t].events,
                        <<"classify", HandlerFor(rt[t].intent), "result",
                          "append", "return">>)

C31_CheckedAtMonotone ==
    [][(last_health_check # <<>> /\ last_health_check' # last_health_check)
          => last_health_check'[1] >= last_health_check[1]]_vars

(* the handle_vision_intent call of t is between its start publication     *)
(* (line 123) and its end publication                                      *)
InVision(t) ==
    /\ vis[t].intent # None
    /\ vis[t].ret = None
    /\ pc[t] # "raised"

(* C33: the published record is active in every state in which some        *)
(* handle_vision_intent call is between its start publication and its end  *)
(* publication, also when several calls overlap                            *)
C33_ActiveWhileRunning ==
    (\E t \in Threads : InVision(t)) => vision_state.active

(* C34: vision with the backend unhealthy - when the frame was captured and *)
(* the health check of the pipeline answers unhealthy, the next step ends   *)
(* the call with the lm_studio_disconnected error (not the camera_failed    *)
(* one) and publishes active = FALSE with the error text as result, and the *)
(* call has made no POST                                                    *)
C34_VisionUnhealthy ==
    /\ [](\A t \in Threads :
            vis[t].ret = "lm_studio_disconnected"
                => (vis[t].image = "jpeg" /\ cc[t] = CcIdle))
    /\ [][\A t \in Threads :
            (pc[t] = "v_after_hc" /\ hc[t].ret = <<FALSE>> /\ pc'[t] # pc[t])
                => /\ pc'[t] = "v_done"
                   /\ vis'[t].ret = "lm_studio_disconnected"
                   /\ vis'[t].ret # "camera_failed"
                   /\ cc'[t] = CcIdle
                   /\ vision_state'.active = FALSE
                   /\ vision_state'.result = "LM Studio not connected"]_vars

C34_Witness ==
    \E t \in Threads :
        /\ pc[t] = "v_done"
        /\ vis[t].image = "jpeg"
        /\ vis[t].ret = "lm_studio_disconnected"
        /\ hc[t].ret = <<FALSE>>
        /\ vision_state.result = "LM Studio not connected"

(* C36: the health check precedes the first POST - a completion call, chat *)
(* or vision, that has made a POST made it after its own health check      *)
(* answered healthy, and the step that makes a POST is taken by a thread    *)
(* whose health check has answered healthy                                  *)
C36_HealthCheckBeforePost ==
    /\ [](\A t \in Threads :
            (cc[t].log # <<>> \/ cc[t].made # <<>>) => hc[t].ret = <<TRUE>>)
    /\ [][\A t \in Threads :
            Len(cc'[t].log) > Len(cc[t].log)
                => (hc[t].ret = <<TRUE>> /\ pc[t] \in {"cc_loop", "vc_post"})]_vars

C36_Witness ==
    \E t \in Threads :
        /\ cc[t].kind = "vision"
        /\ Len(cc[t].log) = 1
        /\ hc[t].ret = <<TRUE>>
        /\ hc[t].gets = 0

(* C32: on the LLM-forward path, when the health check of the route         *)
(* answered healthy, the chat completion it then calls has made at least    *)
(* one POST when it returns, whatever the health checks of other requests   *)
(* do in between                                                            *)
C32_HealthyMeansAttempt ==
    \A t \in SeqThreads :
        (/\ rt[t].route = "chat"
         /\ rt[t].lm_healthy = <<TRUE>>
         /\ pc[t] = "r_after_cc")
            => Len(cc[t].made) >= 1

(* C35: every request terminates - a chat request that has been received   *)
(* is answered with a response, and on the way its completion call makes   *)
(* at most max_retries POSTs and at most max_retries - 1 waits             *)
C35_EveryRequestTerminates ==
    /\ [](\A t \in SeqThreads :
            /\ Len(cc[t].log) <= max_retries
            /\ Len(cc[t].made) <= max_retries
            /\ cc[t].sleeps <= max_retries - 1)
    /\ \A t \in SeqThreads :
            (rt[t].route = "chat") ~> (Answered(t) /\ rt[t].status # None)

C35_Witness ==
    \E t \in SeqThreads :
        /\ Answered(t)
        /\ rt[t].status = "200"
        /\ rt[t].intent = None
        /\ max_retries = MaxRetriesBound
        /\ Len(cc[t].made) = max_retries

(* the request carries no input: its body is an object with no prompt, no  *)
(* input and no non-empty content in the last message                      *)
NoInputBody(b) ==
    LET Empty(v) == v = <<>> \/ v = <<UserText(0)>>
    IN  /\ b.kind = "object"
        /\ Empty(b.prompt)
        /\ Empty(b.input)
        /\ \/ b.messages = <<>>
           \/ b.messages = << <<>> >>
           \/ /\ b.messages[1] # <<>>
              /\ Empty(b.messages[1][Len(b.messages[1])].content)

BadKey(k) == k = <<>> \/ k # <<"home-link-secret">>

(* C38 as stated: a /chat or /models request whose key header is missing   *)
(* or differs from the shared secret is answered 403, and no request is    *)
(* sent to the inference backend on its behalf                             *)
C38_BadKeyGets403 ==
    \A t \in Threads :
        (px[t].route # None /\ BadKey(px[t].key))
            => /\ px[t].sent = 0
               /\ pc[t] = "p_done" => px[t].status = "403"

(* C38 amended: such a request is rejected and no request is sent to the   *)
(* backend on its behalf; the status is 403, except for a /chat request    *)
(* whose body does not fit ChatRequest, which is answered 422 before the   *)
(* key is looked at; and a request with the right key is not answered 403  *)
C38_BadKeyRejected ==
    \A t \in Threads :
        /\ (px[t].route # None /\ BadKey(px[t].key))
              => /\ px[t].sent = 0
                 /\ pc[t] # "p_forward"
                 /\ pc[t] = "p_done"
                      => px[t].status =
                            IF px[t].route = "chat" /\ ~px[t].body_valid
                            THEN "422" ELSE "403"
        /\ (px[t].route # None /\ ~BadKey(px[t].key)) => px[t].status # "403"

C38_Witness ==
    \E a, b \in Threads :
        /\ pc[a] = "p_done" /\ px[a].route = "models"
        /\ px[a].key = <<>> /\ px[a].status = "403"
        /\ pc[b] = "p_done" /\ px[b].route = "chat"
        /\ px[b].key = <<"wrong-key">> /\ px[b].status = "403"

====
